---------------------------- MODULE Spec2Model ----------------------------
(***************************************************************************)
(* JS8Call Monitor: the settings dialog (settings.py) and the main window  *)
(* (js8call_monitor_gui.py) as state machines.                             *)
(*                                                                         *)
(* Strings that the code converts (config values, widget texts) are        *)
(* sequences of one-character strings, so that strtobool(), int(), str()   *)
(* and the configparser interpolation are computed character by character. *)
(* Section names, option names and widget names are only compared, and are *)
(* plain strings.                                                          *)
(***************************************************************************)
EXTENDS Integers, Sequences, FiniteSets, TLC

(***************************************************************************)
(* Python string helpers                                                   *)
(***************************************************************************)
UpperCase == <<"A","B","C","D","E","F","G","H","I","J","K","L","M",
               "N","O","P","Q","R","S","T","U","V","W","X","Y","Z">>
LowerCase == <<"a","b","c","d","e","f","g","h","i","j","k","l","m",
               "n","o","p","q","r","s","t","u","v","w","x","y","z">>
Digits == <<"0","1","2","3","4","5","6","7","8","9">>

lower_char(c) ==
  IF \E i \in 1..Len(UpperCase) : UpperCase[i] = c
  THEN LowerCase[CHOOSE i \in 1..Len(UpperCase) : UpperCase[i] = c]
  ELSE c

\* str.lower()
lower(s) == [i \in 1..Len(s) |-> lower_char(s[i])]

\* str.strip() on blanks
RECURSIVE lstrip(_)
lstrip(s) == IF Len(s) > 0 /\ s[1] = " " THEN lstrip(Tail(s)) ELSE s
RECURSIVE rstrip(_)
rstrip(s) ==
  IF Len(s) > 0 /\ s[Len(s)] = " " THEN rstrip(SubSeq(s, 1, Len(s) - 1)) ELSE s
strip(s) == rstrip(lstrip(s))

\* an evaluation either yields a value or raises an exception
Ok(v) == [exc |-> "none", val |-> v]
Raise(e) == [exc |-> e, val |-> <<>>]

\* distutils.util.strtobool
strtobool(val) ==
  LET v == lower(val) IN
  IF v \in { <<"y">>, <<"y","e","s">>, <<"t">>, <<"t","r","u","e">>,
             <<"o","n">>, <<"1">> }
  THEN Ok(1)
  ELSE IF v \in { <<"n">>, <<"n","o">>, <<"f">>, <<"f","a","l","s","e">>,
                  <<"o","f","f">>, <<"0">> }
  THEN Ok(0)
  ELSE Raise("ValueError")

IsDigit(c) == \E i \in 1..10 : Digits[i] = c
DigitVal(c) == (CHOOSE i \in 1..10 : Digits[i] = c) - 1

\* value of a well-formed digit string (underscores between digits skipped)
RECURSIVE DigitsValue(_)
DigitsValue(s) ==
  IF Len(s) = 0 THEN 0
  ELSE IF s[Len(s)] = "_" THEN DigitsValue(SubSeq(s, 1, Len(s) - 1))
  ELSE 10 * DigitsValue(SubSeq(s, 1, Len(s) - 1)) + DigitVal(s[Len(s)])

\* int(str): blanks stripped, optional sign, digits with single underscores
\* between digits; anything else raises ValueError
int(str) ==
  LET s == strip(str)
      signed == Len(s) > 0 /\ s[1] \in {"+", "-"}
      body == IF signed THEN Tail(s) ELSE s
      wellformed ==
        /\ Len(body) > 0
        /\ \A i \in 1..Len(body) :
             \/ IsDigit(body[i])
             \/ /\ body[i] = "_"
                /\ 1 < i /\ i < Len(body)
                /\ IsDigit(body[i - 1]) /\ IsDigit(body[i + 1])
  IN IF ~wellformed THEN Raise("ValueError")
     ELSE IF signed /\ s[1] = "-" THEN Ok(0 - DigitsValue(body))
     ELSE Ok(DigitsValue(body))

\* str(int)
RECURSIVE NatToStr(_)
NatToStr(n) ==
  IF n < 10 THEN <<Digits[n + 1]>>
  ELSE NatToStr(n \div 10) \o <<Digits[(n % 10) + 1]>>
IntToStr(n) == IF n < 0 THEN <<"-">> \o NatToStr(0 - n) ELSE NatToStr(n)

\* str(bool).lower()
BoolToStr(b) ==
  lower(IF b THEN <<"T","r","u","e">> ELSE <<"F","a","l","s","e">>)

(***************************************************************************)
(* configparser.ConfigParser                                               *)
(* A parser object is [defaults, sections]: the options of the DEFAULT     *)
(* section and, for each other section present, its own options.           *)
(***************************************************************************)
DEFAULTSECT == "DEFAULT"

\* RawConfigParser.optionxform: option names are lower-cased
optionxform(option) ==
  CASE option = "FccData" -> "fccdata"
    [] option = "HamCallCD" -> "hamcallcd"
    [] option = "RacCD" -> "raccd"
    [] option = "LocalDB" -> "localdb"
    [] option = "LocalDB_learn" -> "localdb_learn"
    [] option = "Collect_Rejects" -> "collect_rejects"
    [] option = "Callook" -> "callook"
    [] option = "HamCallOnline" -> "hamcallonline"
    [] option = "HCusername" -> "hcusername"
    [] option = "HCpassword" -> "hcpassword"
    [] OTHER -> option

EmptyOptions == [k \in {} |-> <<>>]
EmptyConfig == [defaults |-> EmptyOptions, sections |-> [s \in {} |-> EmptyOptions]]

has_section(cfg, section) == section \in DOMAIN cfg.sections

\* RawConfigParser._unify_values: the section's options over the defaults
unify_values(cfg, section) ==
  LET own == IF section = DEFAULTSECT THEN EmptyOptions ELSE cfg.sections[section]
  IN [k \in DOMAIN cfg.defaults \cup DOMAIN own |->
        IF k \in DOMAIN own THEN own[k] ELSE cfg.defaults[k]]

\* BasicInterpolation.before_get: "%%" reads as "%"; a "%" followed by
\* anything else is a syntax error (no value here holds a "%(name)s" reference)
RECURSIVE interpolate(_)
interpolate(s) ==
  IF Len(s) = 0 THEN Ok(<<>>)
  ELSE IF s[1] # "%"
  THEN LET r == interpolate(Tail(s)) IN
       IF r.exc # "none" THEN r ELSE Ok(<<s[1]>> \o r.val)
  ELSE IF Len(s) >= 2 /\ s[2] = "%"
  THEN LET r == interpolate(SubSeq(s, 3, Len(s))) IN
       IF r.exc # "none" THEN r ELSE Ok(<<"%">> \o r.val)
  ELSE Raise("InterpolationSyntaxError")

\* BasicInterpolation.before_set: value.replace('%%', '') must hold no "%",
\* that is, scanning from the left every "%" is followed by a second "%"
RECURSIVE valid_from(_, _)
valid_from(s, i) ==
  IF i > Len(s) THEN TRUE
  ELSE IF s[i] # "%" THEN valid_from(s, i + 1)
  ELSE i < Len(s) /\ s[i + 1] = "%" /\ valid_from(s, i + 2)
valid_for_set(value) == valid_from(value, 1)

\* a get whose fallback covers a missing option but not a missing section
config_get_strict(cfg, section, option, fallback) ==
  IF section # DEFAULTSECT /\ ~has_section(cfg, section) THEN Raise("NoSectionError")
  ELSE LET d == unify_values(cfg, section)
           opt == optionxform(option)
       IN IF opt \notin DOMAIN d THEN Ok(fallback) ELSE interpolate(d[opt])

\* ConfigParser.get(section, option, fallback=...)
config_get(cfg, section, option, fallback) ==
  IF section # DEFAULTSECT /\ ~has_section(cfg, section) THEN Ok(fallback)
  ELSE LET d == unify_values(cfg, section)
           opt == optionxform(option)
       IN IF opt \notin DOMAIN d THEN Ok(fallback) ELSE interpolate(d[opt])

\* ConfigParser.set(section, option, value): the exception it raises, if any
\* (the value is validated first, then the section is looked up)
config_set_raises(cfg, section, value) ==
  IF value # <<>> /\ ~valid_for_set(value) THEN "ValueError"
  ELSE IF section # DEFAULTSECT /\ ~has_section(cfg, section) THEN "NoSectionError"
  ELSE "none"

\* a write of the options of the form only
written_file_form_only(cfg) ==
  [defaults |-> EmptyOptions,
   sections |-> [s \in DOMAIN cfg.sections \ {"LOCATOR"} |->
                   [k \in DOMAIN cfg.sections[s] \ {"timeout"} |-> strip(cfg.sections[s][k])]]]

\* ConfigParser.write followed by a later ConfigParser.read of the file:
\* "key = value" lines, whose values are read back stripped of blanks
written_file(cfg) ==
  [defaults |-> [k \in DOMAIN cfg.defaults |-> strip(cfg.defaults[k])],
   sections |-> [s \in DOMAIN cfg.sections |->
                   [k \in DOMAIN cfg.sections[s] |-> strip(cfg.sections[s][k])]]]

(***************************************************************************)
(* The settings dialog's fields                                            *)
(***************************************************************************)
\* the fields as the create_*_tab methods build them, in order
TabFields ==
  <<
    [widget |-> "operator_edit", kind |-> "text", section |-> "STATION", key |-> "operator", fallback |-> <<>>, lo |-> 0, hi |-> 0],
    [widget |-> "class_edit", kind |-> "text", section |-> "STATION", key |-> "class", fallback |-> <<>>, lo |-> 0, hi |-> 0],
    [widget |-> "my_grid_edit", kind |-> "text", section |-> "STATION", key |-> "my_gridsquare", fallback |-> <<>>, lo |-> 0, hi |-> 0],
    [widget |-> "my_name_edit", kind |-> "text", section |-> "STATION", key |-> "my_name", fallback |-> <<>>, lo |-> 0, hi |-> 0],
    [widget |-> "my_county_edit", kind |-> "text", section |-> "STATION", key |-> "my_county", fallback |-> <<>>, lo |-> 0, hi |-> 0],
    [widget |-> "tcp_enabled", kind |-> "check", section |-> "TCP", key |-> "enabled", fallback |-> <<"f","a","l","s","e">>, lo |-> 0, hi |-> 0],
    [widget |-> "tcp_host_edit", kind |-> "text", section |-> "TCP", key |-> "host", fallback |-> <<"1","2","7",".","0",".","0",".","1">>, lo |-> 0, hi |-> 0],
    [widget |-> "tcp_port_edit", kind |-> "spin", section |-> "TCP", key |-> "port", fallback |-> <<"2","1","7","1">>, lo |-> 1, hi |-> 65535],
    [widget |-> "tcp_poll_edit", kind |-> "spin", section |-> "TCP", key |-> "poll_status_interval", fallback |-> <<"5">>, lo |-> 1, hi |-> 60],
    [widget |-> "udp_host_edit", kind |-> "text", section |-> "JS8Call", key |-> "host", fallback |-> <<"1","2","7",".","0",".","0",".","1">>, lo |-> 0, hi |-> 0],
    [widget |-> "udp_port_edit", kind |-> "spin", section |-> "JS8Call", key |-> "port", fallback |-> <<"2","2","4","2">>, lo |-> 1, hi |-> 65535],
    [widget |-> "n1mm_enabled", kind |-> "check", section |-> "N1MM", key |-> "enabled", fallback |-> <<"f","a","l","s","e">>, lo |-> 0, hi |-> 0],
    [widget |-> "n1mm_host_edit", kind |-> "text", section |-> "N1MM", key |-> "host", fallback |-> <<"1","2","7",".","0",".","0",".","1">>, lo |-> 0, hi |-> 0],
    [widget |-> "n1mm_port_edit", kind |-> "spin", section |-> "N1MM", key |-> "port", fallback |-> <<"1","2","0","6","0">>, lo |-> 1, hi |-> 65535],
    [widget |-> "gt_enabled", kind |-> "check", section |-> "GRIDTRACKER", key |-> "enabled", fallback |-> <<"f","a","l","s","e">>, lo |-> 0, hi |-> 0],
    [widget |-> "gt_host_edit", kind |-> "text", section |-> "GRIDTRACKER", key |-> "host", fallback |-> <<"1","2","7",".","0",".","0",".","1">>, lo |-> 0, hi |-> 0],
    [widget |-> "gt_port_edit", kind |-> "spin", section |-> "GRIDTRACKER", key |-> "port", fallback |-> <<"2","2","3","7">>, lo |-> 1, hi |-> 65535],
    [widget |-> "gs_msg_enabled", kind |-> "check", section |-> "GEOSERVER", key |-> "enabled_msg", fallback |-> <<"f","a","l","s","e">>, lo |-> 0, hi |-> 0],
    [widget |-> "gs_spot_enabled", kind |-> "check", section |-> "GEOSERVER", key |-> "enabled_spot", fallback |-> <<"f","a","l","s","e">>, lo |-> 0, hi |-> 0],
    [widget |-> "gs_host_edit", kind |-> "text", section |-> "GEOSERVER", key |-> "host", fallback |-> <<"1","2","7",".","0",".","0",".","1">>, lo |-> 0, hi |-> 0],
    [widget |-> "gs_port_edit", kind |-> "spin", section |-> "GEOSERVER", key |-> "port", fallback |-> <<"8","0","8","0">>, lo |-> 1, hi |-> 65535],
    [widget |-> "gs_token_edit", kind |-> "text", section |-> "GEOSERVER", key |-> "token", fallback |-> <<>>, lo |-> 0, hi |-> 0],
    [widget |-> "yaac_enabled", kind |-> "check", section |-> "YAAC", key |-> "enabled", fallback |-> <<"f","a","l","s","e">>, lo |-> 0, hi |-> 0],
    [widget |-> "yaac_logfile_edit", kind |-> "text", section |-> "YAAC", key |-> "logfile", fallback |-> <<"y","a","a","c",".","l","o","g">>, lo |-> 0, hi |-> 0],
    [widget |-> "adif_enabled", kind |-> "check", section |-> "ADIF", key |-> "enabled", fallback |-> <<"f","a","l","s","e">>, lo |-> 0, hi |-> 0],
    [widget |-> "adif_logfile_edit", kind |-> "text", section |-> "ADIF", key |-> "logfile", fallback |-> <<"a","d","i","f",".","l","o","g">>, lo |-> 0, hi |-> 0],
    [widget |-> "db_location_edit", kind |-> "text", section |-> "DATABASES", key |-> "location", fallback |-> <<".","/">>, lo |-> 0, hi |-> 0],
    [widget |-> "fcc_enabled", kind |-> "check", section |-> "DATABASES", key |-> "FccData", fallback |-> <<"f","a","l","s","e">>, lo |-> 0, hi |-> 0],
    [widget |-> "hamcallcd_enabled", kind |-> "check", section |-> "DATABASES", key |-> "HamCallCD", fallback |-> <<"f","a","l","s","e">>, lo |-> 0, hi |-> 0],
    [widget |-> "raccd_enabled", kind |-> "check", section |-> "DATABASES", key |-> "RacCD", fallback |-> <<"f","a","l","s","e">>, lo |-> 0, hi |-> 0],
    [widget |-> "local_enabled", kind |-> "check", section |-> "DATABASES", key |-> "LocalDB", fallback |-> <<"f","a","l","s","e">>, lo |-> 0, hi |-> 0],
    [widget |-> "local_learn", kind |-> "check", section |-> "DATABASES", key |-> "LocalDB_learn", fallback |-> <<"f","a","l","s","e">>, lo |-> 0, hi |-> 0],
    [widget |-> "collect_rejects", kind |-> "check", section |-> "DATABASES", key |-> "Collect_Rejects", fallback |-> <<"f","a","l","s","e">>, lo |-> 0, hi |-> 0],
    [widget |-> "callook_enabled", kind |-> "check", section |-> "DATABASES", key |-> "Callook", fallback |-> <<"f","a","l","s","e">>, lo |-> 0, hi |-> 0],
    [widget |-> "hamcallol_enabled", kind |-> "check", section |-> "DATABASES", key |-> "HamCallOnline", fallback |-> <<"f","a","l","s","e">>, lo |-> 0, hi |-> 0],
    [widget |-> "hc_username_edit", kind |-> "text", section |-> "DATABASES", key |-> "HCusername", fallback |-> <<>>, lo |-> 0, hi |-> 0],
    [widget |-> "hc_password_edit", kind |-> "text", section |-> "DATABASES", key |-> "HCpassword", fallback |-> <<>>, lo |-> 0, hi |-> 0],
    [widget |-> "console_level", kind |-> "spin", section |-> "DEBUG", key |-> "consolelevel", fallback |-> <<"0">>, lo |-> 0, hi |-> 10],
    [widget |-> "logfile_level", kind |-> "spin", section |-> "DEBUG", key |-> "logfilelevel", fallback |-> <<"0">>, lo |-> 0, hi |-> 10],
    [widget |-> "logfile_edit", kind |-> "text", section |-> "DEBUG", key |-> "logfile", fallback |-> <<"j","s","8","m","o","n","i","t","o","r",".","l","o","g">>, lo |-> 0, hi |-> 0],
    [widget |-> "smtp_enabled", kind |-> "check", section |-> "SMTP", key |-> "enabled", fallback |-> <<"f","a","l","s","e">>, lo |-> 0, hi |-> 0],
    [widget |-> "smtp_host_edit", kind |-> "text", section |-> "SMTP", key |-> "host", fallback |-> <<>>, lo |-> 0, hi |-> 0],
    [widget |-> "smtp_port_edit", kind |-> "spin", section |-> "SMTP", key |-> "port", fallback |-> <<"5","8","7">>, lo |-> 1, hi |-> 65535],
    [widget |-> "smtp_user_edit", kind |-> "text", section |-> "SMTP", key |-> "user", fallback |-> <<>>, lo |-> 0, hi |-> 0],
    [widget |-> "smtp_pass_edit", kind |-> "text", section |-> "SMTP", key |-> "pass", fallback |-> <<>>, lo |-> 0, hi |-> 0],
    [widget |-> "mail_from_edit", kind |-> "text", section |-> "SMTP", key |-> "mailfrom", fallback |-> <<>>, lo |-> 0, hi |-> 0],
    [widget |-> "mail_to_edit", kind |-> "text", section |-> "SMTP", key |-> "mailto", fallback |-> <<>>, lo |-> 0, hi |-> 0],
    [widget |-> "grid_length", kind |-> "spin", section |-> "GRIDS", key |-> "gridlength", fallback |-> <<"6">>, lo |-> 1, hi |-> 11],
    [widget |-> "grid_frominfo", kind |-> "check", section |-> "GRIDS", key |-> "frominfo", fallback |-> <<"f","a","l","s","e">>, lo |-> 0, hi |-> 0],
    [widget |-> "map_all", kind |-> "check", section |-> "GRIDS", key |-> "map_all", fallback |-> <<"f","a","l","s","e">>, lo |-> 0, hi |-> 0],
    [widget |-> "map_cq", kind |-> "check", section |-> "GRIDS", key |-> "map_cq", fallback |-> <<"t","r","u","e">>, lo |-> 0, hi |-> 0],
    [widget |-> "map_heartbeat", kind |-> "check", section |-> "GRIDS", key |-> "map_heartbeat", fallback |-> <<"t","r","u","e">>, lo |-> 0, hi |-> 0],
    [widget |-> "map_info", kind |-> "check", section |-> "GRIDS", key |-> "map_info", fallback |-> <<"t","r","u","e">>, lo |-> 0, hi |-> 0],
    [widget |-> "map_status", kind |-> "check", section |-> "GRIDS", key |-> "map_status", fallback |-> <<"t","r","u","e">>, lo |-> 0, hi |-> 0],
    [widget |-> "map_log", kind |-> "check", section |-> "GRIDS", key |-> "map_log", fallback |-> <<"t","r","u","e">>, lo |-> 0, hi |-> 0],
    [widget |-> "map_qso", kind |-> "check", section |-> "GRIDS", key |-> "map_qso", fallback |-> <<"t","r","u","e">>, lo |-> 0, hi |-> 0],
    [widget |-> "map_snr", kind |-> "check", section |-> "GRIDS", key |-> "map_snr", fallback |-> <<"t","r","u","e">>, lo |-> 0, hi |-> 0],
    [widget |-> "auto_close", kind |-> "check", section |-> "GRIDS", key |-> "auto_close", fallback |-> <<"f","a","l","s","e">>, lo |-> 0, hi |-> 0],
    [widget |-> "auth_enabled", kind |-> "check", section |-> "AUTH", key |-> "enabled", fallback |-> <<"f","a","l","s","e">>, lo |-> 0, hi |-> 0],
    [widget |-> "auth_token_edit", kind |-> "text", section |-> "AUTH", key |-> "token", fallback |-> <<>>, lo |-> 0, hi |-> 0]
  >>

SaveFields ==
  <<
    [widget |-> "operator_edit", kind |-> "text", section |-> "STATION", key |-> "operator"],
    [widget |-> "class_edit", kind |-> "text", section |-> "STATION", key |-> "class"],
    [widget |-> "my_grid_edit", kind |-> "text", section |-> "STATION", key |-> "my_gridsquare"],
    [widget |-> "my_name_edit", kind |-> "text", section |-> "STATION", key |-> "my_name"],
    [widget |-> "my_county_edit", kind |-> "text", section |-> "STATION", key |-> "my_county"],
    [widget |-> "tcp_enabled", kind |-> "check", section |-> "TCP", key |-> "enabled"],
    [widget |-> "tcp_host_edit", kind |-> "text", section |-> "TCP", key |-> "host"],
    [widget |-> "tcp_port_edit", kind |-> "spin", section |-> "TCP", key |-> "port"],
    [widget |-> "tcp_poll_edit", kind |-> "spin", section |-> "TCP", key |-> "poll_status_interval"],
    [widget |-> "udp_host_edit", kind |-> "text", section |-> "JS8Call", key |-> "host"],
    [widget |-> "udp_port_edit", kind |-> "spin", section |-> "JS8Call", key |-> "port"],
    [widget |-> "n1mm_enabled", kind |-> "check", section |-> "N1MM", key |-> "enabled"],
    [widget |-> "n1mm_host_edit", kind |-> "text", section |-> "N1MM", key |-> "host"],
    [widget |-> "n1mm_port_edit", kind |-> "spin", section |-> "N1MM", key |-> "port"],
    [widget |-> "gt_enabled", kind |-> "check", section |-> "GRIDTRACKER", key |-> "enabled"],
    [widget |-> "gt_host_edit", kind |-> "text", section |-> "GRIDTRACKER", key |-> "host"],
    [widget |-> "gt_port_edit", kind |-> "spin", section |-> "GRIDTRACKER", key |-> "port"],
    [widget |-> "gs_msg_enabled", kind |-> "check", section |-> "GEOSERVER", key |-> "enabled_msg"],
    [widget |-> "gs_spot_enabled", kind |-> "check", section |-> "GEOSERVER", key |-> "enabled_spot"],
    [widget |-> "gs_host_edit", kind |-> "text", section |-> "GEOSERVER", key |-> "host"],
    [widget |-> "gs_port_edit", kind |-> "spin", section |-> "GEOSERVER", key |-> "port"],
    [widget |-> "gs_token_edit", kind |-> "text", section |-> "GEOSERVER", key |-> "token"],
    [widget |-> "yaac_enabled", kind |-> "check", section |-> "YAAC", key |-> "enabled"],
    [widget |-> "yaac_logfile_edit", kind |-> "text", section |-> "YAAC", key |-> "logfile"],
    [widget |-> "adif_enabled", kind |-> "check", section |-> "ADIF", key |-> "enabled"],
    [widget |-> "adif_logfile_edit", kind |-> "text", section |-> "ADIF", key |-> "logfile"],
    [widget |-> "db_location_edit", kind |-> "text", section |-> "DATABASES", key |-> "location"],
    [widget |-> "fcc_enabled", kind |-> "check", section |-> "DATABASES", key |-> "FccData"],
    [widget |-> "hamcallcd_enabled", kind |-> "check", section |-> "DATABASES", key |-> "HamCallCD"],
    [widget |-> "raccd_enabled", kind |-> "check", section |-> "DATABASES", key |-> "RacCD"],
    [widget |-> "local_enabled", kind |-> "check", section |-> "DATABASES", key |-> "LocalDB"],
    [widget |-> "local_learn", kind |-> "check", section |-> "DATABASES", key |-> "LocalDB_learn"],
    [widget |-> "collect_rejects", kind |-> "check", section |-> "DATABASES", key |-> "Collect_Rejects"],
    [widget |-> "callook_enabled", kind |-> "check", section |-> "DATABASES", key |-> "Callook"],
    [widget |-> "hamcallol_enabled", kind |-> "check", section |-> "DATABASES", key |-> "HamCallOnline"],
    [widget |-> "hc_username_edit", kind |-> "text", section |-> "DATABASES", key |-> "HCusername"],
    [widget |-> "hc_password_edit", kind |-> "text", section |-> "DATABASES", key |-> "HCpassword"],
    [widget |-> "console_level", kind |-> "spin", section |-> "DEBUG", key |-> "consolelevel"],
    [widget |-> "logfile_level", kind |-> "spin", section |-> "DEBUG", key |-> "logfilelevel"],
    [widget |-> "logfile_edit", kind |-> "text", section |-> "DEBUG", key |-> "logfile"],
    [widget |-> "smtp_enabled", kind |-> "check", section |-> "SMTP", key |-> "enabled"],
    [widget |-> "smtp_host_edit", kind |-> "text", section |-> "SMTP", key |-> "host"],
    [widget |-> "smtp_port_edit", kind |-> "spin", section |-> "SMTP", key |-> "port"],
    [widget |-> "smtp_user_edit", kind |-> "text", section |-> "SMTP", key |-> "user"],
    [widget |-> "smtp_pass_edit", kind |-> "text", section |-> "SMTP", key |-> "pass"],
    [widget |-> "mail_from_edit", kind |-> "text", section |-> "SMTP", key |-> "mailfrom"],
    [widget |-> "mail_to_edit", kind |-> "text", section |-> "SMTP", key |-> "mailto"],
    [widget |-> "grid_length", kind |-> "spin", section |-> "GRIDS", key |-> "gridlength"],
    [widget |-> "grid_frominfo", kind |-> "check", section |-> "GRIDS", key |-> "frominfo"],
    [widget |-> "map_all", kind |-> "check", section |-> "GRIDS", key |-> "map_all"],
    [widget |-> "map_cq", kind |-> "check", section |-> "GRIDS", key |-> "map_cq"],
    [widget |-> "map_heartbeat", kind |-> "check", section |-> "GRIDS", key |-> "map_heartbeat"],
    [widget |-> "map_info", kind |-> "check", section |-> "GRIDS", key |-> "map_info"],
    [widget |-> "map_status", kind |-> "check", section |-> "GRIDS", key |-> "map_status"],
    [widget |-> "map_log", kind |-> "check", section |-> "GRIDS", key |-> "map_log"],
    [widget |-> "map_qso", kind |-> "check", section |-> "GRIDS", key |-> "map_qso"],
    [widget |-> "map_snr", kind |-> "check", section |-> "GRIDS", key |-> "map_snr"],
    [widget |-> "auto_close", kind |-> "check", section |-> "GRIDS", key |-> "auto_close"],
    [widget |-> "auth_enabled", kind |-> "check", section |-> "AUTH", key |-> "enabled"],
    [widget |-> "auth_token_edit", kind |-> "text", section |-> "AUTH", key |-> "token"]
  >>

FieldIdx == 1..Len(TabFields)
Widgets == {TabFields[i].widget : i \in FieldIdx}
FieldByWidget == [w \in Widgets |-> TabFields[CHOOSE i \in FieldIdx : TabFields[i].widget = w]]
FieldOf(w) == FieldByWidget[w]
TextWidgets == {w \in Widgets : FieldOf(w).kind = "text"}
CheckWidgets == {w \in Widgets : FieldOf(w).kind = "check"}
SpinWidgets == {w \in Widgets : FieldOf(w).kind = "spin"}
\* the line edits that have a "Browse..." button
BrowseWidgets == {"yaac_logfile_edit", "adif_logfile_edit", "db_location_edit", "logfile_edit"}

\* the sections the specification lists for the configuration file
SpecSections == {"STATION", "TCP", "JS8Call", "N1MM", "GRIDTRACKER", "GEOSERVER",
                 "YAAC", "ADIF", "DATABASES", "DEBUG", "SMTP", "GRIDS", "AUTH"}

\* a spin box that takes any number
spin_setValue_unbounded(lo, hi, n) == n

\* QSpinBox.setValue: the value is bound to the range set by setRange
spin_setValue(lo, hi, n) == IF n < lo THEN lo ELSE IF n > hi THEN hi ELSE n

\* one field of a create_*_tab method: the widget's initial state, or the
\* exception that the constructor lets through
init_widget(cfg, f) ==
  LET r == config_get(cfg, f.section, f.key, f.fallback) IN
  IF r.exc # "none" THEN r
  ELSE IF f.kind = "text" THEN Ok(r.val)
  ELSE IF f.kind = "check"
  THEN LET b == strtobool(r.val) IN
       IF b.exc # "none" THEN b ELSE Ok(b.val # 0)
  ELSE LET n == int(r.val) IN
       IF n.exc # "none" THEN n ELSE Ok(spin_setValue(f.lo, f.hi, n.val))

\* the string save_config passes to config.set for a widget
widget_string(kind, v) ==
  IF kind = "text" THEN v
  ELSE IF kind = "check" THEN BoolToStr(v)
  ELSE IntToStr(v)

\* the config.set calls listed in table, in order, up to the first that
\* raises: [exc, cfg, wrote] with wrote the <<widget, section, option>> of the
\* calls completed.  A call raises or not whatever the earlier calls stored
\* (set adds no section), so the calls that complete are those before the
\* first raising one, and an option ends with the value of the last completed
\* call that stored it.
set_all(table, cfg, wid) ==
  LET idx == 1..Len(table)
      str == [i \in idx |-> widget_string(table[i].kind, wid[table[i].widget])]
      exc == [i \in idx |-> config_set_raises(cfg, table[i].section, str[i])]
      failing == {i \in idx : exc[i] # "none"}
      first == IF failing = {} THEN Len(table) + 1
               ELSE CHOOSE i \in failing : \A j \in failing : i <= j
      done == {i \in idx : i < first}
      setters(s, k) == {i \in done : table[i].section = s /\ optionxform(table[i].key) = k}
      last(S) == CHOOSE i \in S : \A j \in S : j <= i
  IN [exc |-> IF failing = {} THEN "none" ELSE exc[first],
      wrote |-> {<<table[i].widget, table[i].section, optionxform(table[i].key)>> : i \in done},
      cfg |-> [cfg EXCEPT !.sections =
                 [s \in DOMAIN cfg.sections |->
                    LET keys == {optionxform(table[i].key) :
                                   i \in {j \in done : table[j].section = s}}
                    IN [k \in DOMAIN cfg.sections[s] \cup keys |->
                          IF k \in keys THEN str[last(setters(s, k))]
                          ELSE cfg.sections[s][k]]]]]

\* save_config with class_edit stored under the operator's option
set_fields_crossed(cfg, wid) ==
  set_all([SaveFields EXCEPT ![2].key = "operator"], cfg, wid)

\* save_config, lines 601-685
set_fields(cfg, wid) == set_all(SaveFields, cfg, wid)

\* a handler for file errors only
caught_by_save_io_only(exc) == exc = "OSError"

\* save_config's handler: "except Exception" catches them all
caught_by_save(exc) == exc \in {"ValueError", "NoSectionError", "OSError"}

(***************************************************************************)
(* Bounds and sample inputs                                                *)
(***************************************************************************)
MaxPerturb == 1   \* options of one section that differ from the full file
MaxEdits == 1     \* user edits of the form per dialog

S_false == <<"f","a","l","s","e">>
S_true == <<"t","r","u","e">>
S_localhost == <<"1","2","7",".","0",".","0",".","1">>

\* values a file may hold for a key, by the kind of widget bound to it
FileValues(kind) ==
  IF kind = "check" THEN { <<"y","e","s">>, <<"O","f","f">>, <<"m","a","y","b","e">> }
  ELSE IF kind = "spin" THEN { <<"7","0","0","0","0">>, <<"0","0","7">>, <<"x">> }
  ELSE { <<"K","1","A","B","C">>, <<"5","0","%","%">>, <<"5","0","%">> }

\* texts a user may type or pick
TextInputs == { <<" ","W","1","A","W">>, <<"9","%">> }
SpinInputs == { 7 }
\* what a file dialog returns: a name, or nothing when it is cancelled
FileNames == { <<"q",".","l","o","g">>, <<>> }

\* options that no widget is bound to: one in a section of the dialog, one in
\* a section of its own (they stand for whatever else the file holds)
UnboundSection == "LOCATOR"

FullFile ==
  [defaults |-> EmptyOptions,
   sections |->
     [s \in SpecSections \cup {UnboundSection} |->
        IF s = UnboundSection THEN [k \in {"source"} |-> <<"g","p","s">>]
        ELSE LET own == {i \in FieldIdx : TabFields[i].section = s}
                 extra == IF s = "TCP" THEN {"timeout"} ELSE {}
             IN [k \in {optionxform(TabFields[i].key) : i \in own} \cup extra |->
                   IF k \in extra THEN <<"3","0">>
                   ELSE TabFields[CHOOSE i \in own : optionxform(TabFields[i].key) = k].fallback]]]

remove_key(opts, k) == [x \in DOMAIN opts \ {k} |-> opts[x]]
put_key(opts, k, v) == [x \in DOMAIN opts \cup {k} |-> IF x = k THEN v ELSE opts[x]]

\* the kind of widget bound to an option of a section
KindOf(s, k) ==
  TabFields[CHOOSE i \in FieldIdx :
              TabFields[i].section = s /\ optionxform(TabFields[i].key) = k].kind
BoundKeys(s) == {optionxform(TabFields[i].key) : i \in {j \in FieldIdx : TabFields[j].section = s}}

\* the options of section s of base with up to n of the bound ones missing or changed
RECURSIVE DamagedOptions(_, _, _)
DamagedOptions(base, s, n) ==
  IF n = 0 THEN {base.sections[s]}
  ELSE LET P == DamagedOptions(base, s, n - 1) IN
       P \cup UNION { {remove_key(o, k)} \cup {put_key(o, k, v) : v \in FileValues(KindOf(s, k))} :
                      o \in P, k \in BoundKeys(s) }

without_section(f, x) ==
  [f EXCEPT !.sections = [s \in DOMAIN f.sections \ {x} |-> f.sections[s]]]

\* an option missing from its section and inherited from [DEFAULT] instead
InheritedFiles ==
  { [defaults |-> [k \in {optionxform(TabFields[i].key)} |-> <<"Y","e","s">>],
     sections |-> [FullFile.sections EXCEPT ![TabFields[i].section] =
                     remove_key(@, optionxform(TabFields[i].key))]] :
    i \in {j \in FieldIdx : TabFields[j].key \in {"enabled", "operator"}} }

\* the files a dialog is opened on and saved as loaded: the full file with one
\* section damaged (missing, or up to n of its options missing or changed), an
\* option inherited from [DEFAULT], or no file at all
LoadedFiles(n) ==
       {FullFile, EmptyConfig}
  \cup {without_section(FullFile, x) : x \in DOMAIN FullFile.sections}
  \cup UNION { {[FullFile EXCEPT !.sections[s] = o] : o \in DamagedOptions(FullFile, s, n)} :
               s \in SpecSections }
  \cup InheritedFiles

\* the files a dialog is opened on and edited
EditedFiles == {FullFile, EmptyConfig, without_section(FullFile, "STATION"),
                without_section(FullFile, "AUTH")}

(***************************************************************************)
(* State                                                                   *)
(***************************************************************************)
VARIABLES
  file,       \* the file 'config', as configparser reads it
  config,     \* SettingsDialog.config
  loaded,     \* what SettingsDialog.__init__ read from the file
  widgets,    \* widget name -> text / checked / value
  dlg,        \* "closed", "open", "accepted", "rejected", "failed"
  msgBox,     \* the last message box shown: "none", "information", "critical"
  raised,     \* the exception that left the last handler, or "none"
  built,      \* how many fields of the tabs __init__ got to (reading its key)
  wroteTo,    \* the <<widget, section, option>> the last save_config stored
  saveExc,    \* what the last save_config's try block raised: "unsaved" before
              \* any save, else "none" or the exception
  nEdits,     \* edits of the form made so far
  mayEdit     \* whether this run edits the form

\* the main window (JS8CallMonitorGUI)
VARIABLES
  pc,                 \* where the window is: "load_config", "start_monitor",
                      \* "start_timer" (the steps of __init__), "running" (the
                      \* event loop), "crashed" (__init__ raised), "closed"
  status_indicators,  \* sequence of [name, protocol, host, port, connected, led]
  loadExc,            \* the exception that left load_config, or "none"
  monitor,            \* "None" or "created"
  monitor_thread,     \* "None" or "started"
  tcp_client,         \* "None" or "created"
  udp_server,         \* "None" or "created"
  queues,             \* js8call_monitor.msgQueue / cmdQueue: "unset" or "fresh"
  forcedPending,      \* the single shot update_status(force=True) is scheduled
  lastError,          \* what show_error printed last, or "none"
  linkUp,             \* the transport of the source is up (TCP connection
                      \* established, UDP socket bound); the network's doing
  seenLink,           \* linkUp at the last update_status: "never", "up", "down"
  window_config,      \* what load_config read from the file
  start_steps_done    \* the steps start_monitor completed, in the order taken

\* the polling thread (MonitorThread) and the two queues of js8call_monitor
VARIABLES
  running,       \* MonitorThread.running
  tpc,           \* where run is: "unstarted", "while", "msg_check", "parse_json",
                 \* "reset_msg", "cmd_check", "parse_cmd", "reset_cmd", "sleep",
                 \* "emit" (the except branch), "done" (returned), "died" (an
                 \* exception left run)
  msgQueue,      \* items pending in js8call_monitor.msgQueue
  cmdQueue,      \* items pending in js8call_monitor.cmdQueue
  caught,        \* the exception the except branch holds, or "none"
  errors,        \* exceptions raised inside run so far
  emitted,       \* error_signal emissions so far
  lastCall,      \* the callback run called last: "none", "parse_json",
                 \* "parse_cmd", "reset_vals"
  msgSeenEmpty,  \* msgQueue.empty() was true in the pass in progress
  sinceRound     \* what happened since the last pass began: "none" (no pass
                 \* yet), "polled" (a pass began, no sleep since), "slept"

dialogVars == <<config, loaded, widgets, dlg, msgBox, raised, built, wroteTo, saveExc, nEdits, mayEdit>>
threadVars == <<running, tpc, msgQueue, cmdQueue, caught, errors, emitted, lastCall,
                msgSeenEmpty, sinceRound>>
windowVars == <<pc, status_indicators, loadExc, monitor, monitor_thread, tcp_client,
                udp_server, queues, forcedPending, lastError, linkUp, seenLink,
                window_config, start_steps_done, threadVars>>
vars == <<file, dialogVars, windowVars>>

NoWidgets == [w \in {} |-> FALSE]

\* no settings dialog yet
DialogClosed ==
  /\ config = EmptyConfig
  /\ loaded = EmptyConfig
  /\ widgets = NoWidgets
  /\ dlg = "closed"
  /\ msgBox = "none"
  /\ raised = "none"
  /\ built = 0
  /\ wroteTo = {}
  /\ saveExc = "unsaved"
  /\ nEdits = 0

\* no polling thread yet
ThreadNew ==
  /\ running = FALSE
  /\ tpc = "unstarted"
  /\ msgQueue = 0
  /\ cmdQueue = 0
  /\ caught = "none"
  /\ errors = 0
  /\ emitted = 0
  /\ lastCall = "none"
  /\ msgSeenEmpty = FALSE
  /\ sinceRound = "none"

\* no main window yet
WindowNew ==
  /\ pc = "load_config"
  /\ status_indicators = <<>>
  /\ loadExc = "none"
  /\ monitor = "None"
  /\ monitor_thread = "None"
  /\ tcp_client = "None"
  /\ udp_server = "None"
  /\ queues = "unset"
  /\ forcedPending = FALSE
  /\ lastError = "none"
  /\ linkUp = FALSE
  /\ seenLink = "never"
  /\ window_config = EmptyConfig
  /\ start_steps_done = <<>>
  /\ ThreadNew

InitSettings ==
  /\ \/ file \in LoadedFiles(MaxPerturb) /\ mayEdit = FALSE
     \/ file \in EditedFiles /\ mayEdit = TRUE
  /\ WindowNew
  /\ config = EmptyConfig
  /\ loaded = EmptyConfig
  /\ widgets = NoWidgets
  /\ dlg = "closed"
  /\ msgBox = "none"
  /\ raised = "none"
  /\ built = 0
  /\ wroteTo = {}
  /\ saveExc = "unsaved"
  /\ nEdits = 0

\* SettingsDialog.__init__: read the file, build the tabs field by field
\* the fields in the order of the tabs; the first exception leaves __init__:
\* [exc, done, widgets] with done the number of fields built
build_tabs(cfg) ==
  LET res == [i \in FieldIdx |-> init_widget(cfg, TabFields[i])]
      failing == {i \in FieldIdx : res[i].exc # "none"}
      first == IF failing = {} THEN Len(TabFields) + 1
               ELSE CHOOSE i \in failing : \A j \in failing : i <= j
  IN [exc |-> IF failing = {} THEN "none" ELSE res[first].exc,
      done |-> IF failing = {} THEN Len(TabFields) ELSE first,
      widgets |-> IF failing # {} THEN NoWidgets
                  ELSE [w \in Widgets |->
                          res[CHOOSE i \in FieldIdx : TabFields[i].widget = w].val]]

OpenSettings ==
  /\ dlg = "closed"
  /\ config' = file
  /\ loaded' = file
  /\ \E b \in {build_tabs(file)} :
       /\ dlg' = IF b.exc # "none" THEN "failed" ELSE "open"
       /\ raised' = b.exc
       /\ widgets' = b.widgets
       /\ built' = b.done
  /\ UNCHANGED <<file, msgBox, wroteTo, saveExc, nEdits, mayEdit>>
  /\ UNCHANGED windowVars

\* the user types into a line edit
EditText(w, v) ==
  /\ dlg = "open" /\ mayEdit /\ nEdits < MaxEdits
  /\ w \in TextWidgets
  /\ widgets' = [widgets EXCEPT ![w] = v]
  /\ nEdits' = nEdits + 1
  /\ UNCHANGED <<file, config, loaded, dlg, msgBox, raised, built, wroteTo, saveExc, mayEdit>>
  /\ UNCHANGED windowVars

\* the user clicks a check box
ToggleCheck(w) ==
  /\ dlg = "open" /\ mayEdit /\ nEdits < MaxEdits
  /\ w \in CheckWidgets
  /\ widgets' = [widgets EXCEPT ![w] = ~@]
  /\ nEdits' = nEdits + 1
  /\ UNCHANGED <<file, config, loaded, dlg, msgBox, raised, built, wroteTo, saveExc, mayEdit>>
  /\ UNCHANGED windowVars

\* the user enters a number in a spin box (the box keeps it in its range)
SetSpin(w, n) ==
  /\ dlg = "open" /\ mayEdit /\ nEdits < MaxEdits
  /\ w \in SpinWidgets
  /\ widgets' = [widgets EXCEPT ![w] = spin_setValue(FieldOf(w).lo, FieldOf(w).hi, n)]
  /\ nEdits' = nEdits + 1
  /\ UNCHANGED <<file, config, loaded, dlg, msgBox, raised, built, wroteTo, saveExc, mayEdit>>
  /\ UNCHANGED windowVars

\* browse_file / browse_directory: a chosen (non-empty) name replaces the text
Browse(w, name) ==
  /\ dlg = "open" /\ mayEdit /\ nEdits < MaxEdits
  /\ w \in BrowseWidgets
  /\ name # <<>>
  /\ widgets' = [widgets EXCEPT ![w] = name]
  /\ nEdits' = nEdits + 1
  /\ UNCHANGED <<file, config, loaded, dlg, msgBox, raised, built, wroteTo, saveExc, mayEdit>>
  /\ UNCHANGED windowVars

\* what the file system does to save_config: nothing wrong, open() raising
\* OSError, or write() raising it after open(.., 'w') has truncated the file
IoOutcomes == {"ok", "open_fails", "write_fails"}

\* save_config
SaveConfig ==
  /\ dlg = "open"
  /\ \E r \in {set_fields(config, widgets)} : \E io \in IoOutcomes :
     LET exc == IF r.exc # "none" THEN r.exc
                ELSE IF io # "ok" THEN "OSError" ELSE "none"
     IN /\ config' = r.cfg
        /\ wroteTo' = r.wrote
        /\ saveExc' = exc
        /\ file' = IF r.exc # "none" \/ io = "open_fails" THEN file
                   ELSE IF io = "write_fails" THEN EmptyConfig
                   ELSE written_file(r.cfg)
        /\ IF exc = "none"
           THEN /\ msgBox' = "information" /\ dlg' = "accepted" /\ raised' = "none"
           ELSE IF caught_by_save(exc)
           THEN /\ msgBox' = "critical" /\ dlg' = "open" /\ raised' = "none"
           ELSE /\ msgBox' = msgBox /\ dlg' = "open" /\ raised' = exc
  /\ UNCHANGED <<loaded, widgets, built, nEdits, mayEdit>>
  /\ UNCHANGED windowVars

\* the Cancel button: QDialog.reject
Cancel ==
  /\ dlg = "open"
  /\ dlg' = "rejected"
  /\ UNCHANGED <<file, config, loaded, widgets, msgBox, raised, built, wroteTo, saveExc, nEdits, mayEdit>>
  /\ UNCHANGED windowVars

NextSettings ==
  \/ OpenSettings
  \/ \E w \in TextWidgets, v \in TextInputs : EditText(w, v)
  \/ \E w \in CheckWidgets : ToggleCheck(w)
  \/ \E w \in SpinWidgets, n \in SpinInputs : SetSpin(w, n)
  \/ \E w \in BrowseWidgets, name \in FileNames : Browse(w, name)
  \/ SaveConfig
  \/ Cancel

SpecSettings == InitSettings /\ [][NextSettings]_vars

(***************************************************************************)
(* Properties of the settings dialog                                       *)
(***************************************************************************)
OptionOf(i) == optionxform(TabFields[i].key)
\* ConfigParser.has_option: the option is in the section or inherited
HasOption(cfg, i) ==
  /\ has_section(cfg, TabFields[i].section)
  /\ OptionOf(i) \in DOMAIN unify_values(cfg, TabFields[i].section)
\* the option is written in the section itself
InSection(cfg, i) ==
  /\ has_section(cfg, TabFields[i].section)
  /\ OptionOf(i) \in DOMAIN cfg.sections[TabFields[i].section]
WidgetText(i) == widget_string(TabFields[i].kind, widgets[TabFields[i].widget])
\* the file holds the widget's value under the widget's section and option
FileHolds(i) ==
  /\ InSection(file, i)
  /\ file.sections[TabFields[i].section][OptionOf(i)] = WidgetText(i)

\* C1: whenever save_config has run and the file system let it write, the
\* save succeeded: the dialog is accepted and for every widget the file
\* holds the widget's value under the widget's section and key, whatever
\* configuration was loaded (a section or key may have been absent).
C1_SaveStoresEveryWidget ==
  saveExc \notin {"unsaved", "OSError"} =>
    /\ dlg = "accepted"
    /\ \A i \in FieldIdx : FileHolds(i)

ReadFrom == {<<TabFields[i].widget, TabFields[i].section, OptionOf(i)>> : i \in 1..built}

\* C2: once a dialog has been built and saved, the <<widget, section, key>>
\* read while building the tabs are those save_config stored, every widget
\* has exactly one <section, key>, no two widgets share one, and every
\* section is one of the thirteen the specification lists.
C2_WidgetKeyBijection ==
  dlg = "accepted" =>
    /\ ReadFrom = wroteTo
    /\ \A w \in Widgets : \E a \in wroteTo : a[1] = w
    /\ \A a, b \in ReadFrom \cup wroteTo :
         (a[1] = b[1] \/ (a[2] = b[2] /\ a[3] = b[3])) => a = b
    /\ \A a \in ReadFrom \cup wroteTo : a[2] \in SpecSections

C2_Witness == dlg = "accepted" /\ Cardinality(wroteTo) = Len(SaveFields)

\* what the loaded file held for the i-th field's option
LoadedValue(i) == loaded.sections[TabFields[i].section][OptionOf(i)]
FileValue(i) == file.sections[TabFields[i].section][OptionOf(i)]

BoundPairs == {<<TabFields[i].section, OptionOf(i)>> : i \in FieldIdx}

\* C4: after a successful save every section and key of the loaded file is
\* in the written file, and those no widget is bound to (the [DEFAULT]
\* options among them) have the value that was loaded.
C4_LoadedKeysKept ==
  dlg = "accepted" =>
    /\ \A s \in DOMAIN loaded.sections :
         /\ s \in DOMAIN file.sections
         /\ \A k \in DOMAIN loaded.sections[s] :
              /\ k \in DOMAIN file.sections[s]
              /\ <<s, k>> \notin BoundPairs => file.sections[s][k] = loaded.sections[s][k]
    /\ \A k \in DOMAIN loaded.defaults :
         k \in DOMAIN file.defaults /\ file.defaults[k] = loaded.defaults[k]

\* saved after an edit, with an unbound section and an unbound key loaded
C4_Witness ==
  /\ dlg = "accepted" /\ nEdits > 0
  /\ "LOCATOR" \in DOMAIN loaded.sections
  /\ "timeout" \in DOMAIN loaded.sections["TCP"]

\* C5: a field whose key the loaded configuration lacks (the key alone, or
\* its whole section) never is the field at which building the dialog
\* raises, and in the dialog as built its widget shows the field's default.
C5_AbsentKeyShowsDefault ==
  \A i \in FieldIdx :
    (dlg # "closed" /\ ~HasOption(loaded, i)) =>
      /\ ~(dlg = "failed" /\ built = i)
      /\ (dlg = "open" /\ nEdits = 0) => WidgetText(i) = TabFields[i].fallback

\* a dialog built on a file that lacks one key of a section and, in another
\* run, a whole section
C5_Witness ==
  /\ dlg = "open" /\ nEdits = 0
  /\ \E i \in FieldIdx :
       has_section(loaded, TabFields[i].section) /\ ~HasOption(loaded, i)

C5_WitnessSection ==
  /\ dlg = "open" /\ nEdits = 0
  /\ \E i \in FieldIdx : ~has_section(loaded, TabFields[i].section)

\* C7: when a step of save_config raised (a config.set, open or write), the
\* critical box is the one shown, the dialog is not accepted and no
\* exception leaves save_config.
C7_FailedSaveReported ==
  saveExc \notin {"unsaved", "none"} =>
    /\ msgBox = "critical"
    /\ dlg \in {"open", "rejected"}
    /\ raised = "none"

\* a save at which config.set raised on a widget's text
C7_Witness == saveExc = "ValueError" /\ dlg = "open"
C7_WitnessNoSection == saveExc = "NoSectionError" /\ dlg = "open"
C7_WitnessOpen == saveExc = "OSError" /\ dlg = "open" /\ file = loaded /\ file # EmptyConfig
C7_WitnessWrite == saveExc = "OSError" /\ dlg = "open" /\ file # loaded

(***************************************************************************)
(* The main window: status indicators                                      *)
(***************************************************************************)
LedGreen == "#00FF00"
LedRed == "#FF0000"

\* a check that takes a UDP socket for down
check_connection_udp_down(ind) ==
  IF ind.protocol = "UDP" THEN [ind EXCEPT !.connected = FALSE]
  ELSE IF ind.protocol = "TCP" THEN [ind EXCEPT !.connected = TRUE]
  ELSE ind

\* a check that takes a FILE indicator for down
check_connection_file_down(ind) ==
  IF ind.protocol = "UDP" THEN [ind EXCEPT !.connected = TRUE]
  ELSE IF ind.protocol = "TCP" THEN [ind EXCEPT !.connected = TRUE]
  ELSE [ind EXCEPT !.connected = FALSE]

\* ConnectionStatus.check_connection on an indicator's status (a FILE
\* indicator matches neither branch and keeps its flag)
check_connection(ind) ==
  IF ind.protocol = "UDP" THEN [ind EXCEPT !.connected = TRUE]
  ELSE IF ind.protocol = "TCP" THEN [ind EXCEPT !.connected = TRUE]
  ELSE ind

\* an update_led that colours the label and leaves the status alone
update_led_colour_only(ind, connected) ==
  [ind EXCEPT !.led = IF connected THEN LedGreen ELSE LedRed]

\* StatusIndicator.update_led
update_led(ind, connected) ==
  [ind EXCEPT !.led = IF connected THEN LedGreen ELSE LedRed,
              !.connected = connected]

\* StatusIndicator.check_status
check_status(ind) ==
  LET checked == check_connection(ind) IN update_led(checked, checked.connected)

\* StatusIndicator(name, protocol, host, port): ConnectionStatus.__init__, init_ui
StatusIndicator(name, protocol, host, port) ==
  update_led([name |-> name, protocol |-> protocol, host |-> host, port |-> port,
              connected |-> FALSE, led |-> ""], FALSE)

\* an update_status that does not look at force
update_status_unforced(indicators, force) ==
  [i \in DOMAIN indicators |-> check_status(indicators[i])]

\* JS8CallMonitorGUI.update_status
update_status(indicators, force) ==
  [i \in DOMAIN indicators |->
     LET checked == check_status(indicators[i]) IN
     IF force THEN update_led(checked, TRUE) ELSE checked]

(***************************************************************************)
(* The main window: load_config                                            *)
(***************************************************************************)
\* config[section].get(option, default): KeyError when the section is missing
section_get(cfg, section, option, default) ==
  IF section # DEFAULTSECT /\ ~has_section(cfg, section) THEN Raise("KeyError")
  ELSE config_get(cfg, section, option, default)

\* bool(strtobool(config[section].get(option, 'false')))
section_flag(cfg, section, option) ==
  LET r == section_get(cfg, section, option, S_false) IN
  IF r.exc # "none" THEN r
  ELSE LET b == strtobool(r.val) IN
       IF b.exc # "none" THEN b ELSE Ok(b.val # 0)

\* the guarded TCP test of load_config (and of start_monitor): any exception
\* means False
tcp_enabled_in(cfg) ==
  IF ~has_section(cfg, "TCP") THEN FALSE
  ELSE LET r == section_flag(cfg, "TCP", "enabled") IN
       IF r.exc # "none" THEN FALSE ELSE r.val

\* the source indicator: [exc, ind]
source_indicator(cfg) ==
  LET tcp == tcp_enabled_in(cfg)
      sec == IF tcp THEN "TCP" ELSE "JS8Call"
      host == section_get(cfg, sec, "host", S_localhost)
      port == section_get(cfg, sec, "port",
                          IF tcp THEN <<"2","1","7","1">> ELSE <<"2","2","4","2">>)
  IN IF host.exc # "none" THEN [exc |-> host.exc, ind |-> <<>>]
     ELSE IF port.exc # "none" THEN [exc |-> port.exc, ind |-> <<>>]
     ELSE [exc |-> "none",
           ind |-> StatusIndicator(IF tcp THEN "JS8Call (TCP)" ELSE "JS8Call (UDP)",
                                   IF tcp THEN "TCP" ELSE "UDP", host.val, port.val)]

\* the clients in the order load_config handles them
Clients ==
  << [name |-> "N1MM+", protocol |-> "UDP", section |-> "N1MM", flags |-> <<"enabled">>,
      addrkey |-> "port", addrdefault |-> <<"1","2","0","6","0">>],
     [name |-> "GridTracker", protocol |-> "UDP", section |-> "GRIDTRACKER", flags |-> <<"enabled">>,
      addrkey |-> "port", addrdefault |-> <<"2","2","3","7">>],
     [name |-> "GeoServer", protocol |-> "UDP", section |-> "GEOSERVER",
      flags |-> <<"enabled_msg", "enabled_spot">>,
      addrkey |-> "port", addrdefault |-> <<"8","0","8","0">>],
     [name |-> "YAAC", protocol |-> "FILE", section |-> "YAAC", flags |-> <<"enabled">>,
      addrkey |-> "logfile", addrdefault |-> <<"y","a","a","c",".","l","o","g">>],
     [name |-> "ADIF", protocol |-> "FILE", section |-> "ADIF", flags |-> <<"enabled">>,
      addrkey |-> "logfile", addrdefault |-> <<"a","d","i","f",".","l","o","g">>] >>

\* one client of load_config: [exc, made, ind]
client_indicator(cfg, c) ==
  LET flag == [j \in 1..Len(c.flags) |-> section_flag(cfg, c.section, c.flags[j])]
      bad == {j \in 1..Len(c.flags) : flag[j].exc # "none"}
      host == IF c.protocol = "FILE" THEN Ok(<<"L","o","g">>)
              ELSE section_get(cfg, c.section, "host", S_localhost)
      addr == section_get(cfg, c.section, c.addrkey, c.addrdefault)
  IN IF bad # {}
     THEN [exc |-> flag[CHOOSE j \in bad : \A k \in bad : j <= k].exc,
           made |-> FALSE, ind |-> <<>>]
     ELSE IF ~(\E j \in 1..Len(c.flags) : flag[j].val)
     THEN [exc |-> "none", made |-> FALSE, ind |-> <<>>]
     ELSE IF host.exc # "none" THEN [exc |-> host.exc, made |-> FALSE, ind |-> <<>>]
     ELSE IF addr.exc # "none" THEN [exc |-> addr.exc, made |-> FALSE, ind |-> <<>>]
     ELSE [exc |-> "none", made |-> TRUE,
           ind |-> StatusIndicator(c.name, c.protocol, host.val, addr.val)]

\* the clients from the i-th on, appended to the indicators made so far
RECURSIVE load_clients(_, _, _)
load_clients(cfg, i, made) ==
  IF i > Len(Clients) THEN [exc |-> "none", indicators |-> made]
  ELSE LET r == client_indicator(cfg, Clients[i]) IN
       IF r.exc # "none" THEN [exc |-> r.exc, indicators |-> made]
       ELSE load_clients(cfg, i + 1, IF r.made THEN Append(made, r.ind) ELSE made)

\* JS8CallMonitorGUI.load_config: [exc, indicators]
load_config(cfg) ==
  LET src == source_indicator(cfg) IN
  IF src.exc # "none" THEN [exc |-> src.exc, indicators |-> <<>>]
  ELSE load_clients(cfg, 1, <<src.ind>>)

(***************************************************************************)
(* The main window: initial files and actions                              *)
(***************************************************************************)
WindowSections == {"TCP", "JS8Call", "N1MM", "GRIDTRACKER", "GEOSERVER", "YAAC", "ADIF"}
\* the options that switch the TCP source and the clients on
EnablingFlags ==
  {<<"TCP", "enabled">>} \cup
  UNION { {<<Clients[i].section, Clients[i].flags[j]>> : j \in 1..Len(Clients[i].flags)} :
          i \in 1..Len(Clients) }

\* the full file with the given flags set to "true"
with_flags(flags) ==
  [FullFile EXCEPT !.sections =
     [s \in DOMAIN FullFile.sections |->
        [k \in DOMAIN FullFile.sections[s] |->
           IF <<s, k>> \in flags THEN S_true ELSE FullFile.sections[s][k]]]]

\* nothing enabled (UDP source alone), everything enabled, every client
\* enabled on a UDP source
BaseFiles == {FullFile, with_flags(EnablingFlags),
              with_flags(EnablingFlags \ {<<"TCP", "enabled">>})}

\* the files a window starts on: a base file, with one of the sections the
\* window reads damaged (missing, or up to n options missing or changed), or
\* no file at all
WindowFiles(n) ==
  {EmptyConfig} \cup
  UNION { {b} \cup {without_section(b, x) : x \in WindowSections}
              \cup UNION { {[b EXCEPT !.sections[s] = o] : o \in DamagedOptions(b, s, n)} :
                           s \in WindowSections } :
          b \in BaseFiles }

Init ==
  /\ file \in WindowFiles(MaxPerturb)
  /\ DialogClosed
  /\ mayEdit = FALSE
  /\ WindowNew

\* JS8CallMonitorGUI.__init__: load_config (an exception leaves __init__ and
\* main(): no window)
LoadConfig ==
  /\ pc = "load_config"
  /\ \E r \in {load_config(file)} :
       /\ status_indicators' = r.indicators
       /\ loadExc' = r.exc
       /\ pc' = IF r.exc = "none" THEN "start_monitor" ELSE "crashed"
  /\ window_config' = file
  /\ UNCHANGED <<monitor, monitor_thread, tcp_client, udp_server, queues,
                 forcedPending, lastError, linkUp, seenLink>>
  /\ UNCHANGED <<file, dialogVars, start_steps_done, threadVars>>

\* the file with the TCP source switched the other way, as the settings
\* dialog's save writes it when the TCP check box was toggled
switch_tcp(f) ==
  [f EXCEPT !.sections["TCP"] =
     put_key(@, "enabled", IF tcp_enabled_in(f) THEN S_false ELSE S_true)]

\* between load_config's read of 'config' and start_monitor's read, another
\* process rewrites the file
FileRewritten ==
  /\ pc = "start_monitor"
  /\ has_section(file, "TCP")
  /\ file' = switch_tcp(file)
  /\ UNCHANGED <<dialogVars, windowVars>>

\* what may raise inside start_monitor's try block: nothing, the
\* JS8CallMonitor constructor, the tcp_client / udp_server constructor, or
\* starting the thread
StartFailures == {"none", "monitor", "transport", "thread"}

\* how many of start_monitor's steps complete when the given step raises
steps_before(fails) ==
  CASE fails = "monitor" -> 1
    [] fails = "transport" -> 2
    [] fails = "thread" -> 4
    [] fails = "none" -> 6

\* a start_monitor that starts the thread first and installs the queues after
start_steps_thread_first(fails, tcp) ==
  SubSeq(<<"MonitorThread", "thread.start", "queues", "JS8CallMonitor",
           IF tcp THEN "tcp_client" ELSE "udp_server", "singleShot">>,
         1, steps_before(fails))

\* the statements of start_monitor's try block in their order: the queues,
\* the monitor instance, the transport, the thread object, its start, the
\* single shot; those before the step that raises are the ones completed
start_steps(fails, tcp) ==
  SubSeq(<<"queues", "JS8CallMonitor", IF tcp THEN "tcp_client" ELSE "udp_server",
           "MonitorThread", "thread.start", "singleShot">>,
         1, steps_before(fails))

\* JS8CallMonitorGUI.__init__: start_monitor
StartMonitor(fails) ==
  /\ pc = "start_monitor"
  /\ queues' = "fresh"
  /\ monitor' = IF fails = "monitor" THEN "None" ELSE "created"
  /\ tcp_client' = IF fails \notin {"monitor", "transport"} /\ tcp_enabled_in(file)
                   THEN "created" ELSE "None"
  /\ udp_server' = IF fails \notin {"monitor", "transport"} /\ ~tcp_enabled_in(file)
                   THEN "created" ELSE "None"
  /\ monitor_thread' = IF fails = "none" THEN "started"
                       ELSE IF fails = "thread" THEN "created" ELSE "None"
  /\ forcedPending' = (fails = "none")
  /\ lastError' = IF fails = "none" THEN lastError ELSE "Failed to start monitor"
  /\ pc' = "start_timer"
  /\ msgQueue' = 0
  /\ cmdQueue' = 0
  /\ running' = IF fails \in {"none", "thread"} THEN TRUE ELSE running
  /\ tpc' = IF fails = "none" THEN "while" ELSE tpc
  /\ UNCHANGED <<status_indicators, loadExc, linkUp, seenLink>>
  /\ start_steps_done' = start_steps(fails, tcp_enabled_in(file))
  /\ UNCHANGED <<caught, errors, emitted, lastCall, msgSeenEmpty, sinceRound>>
  /\ UNCHANGED <<file, dialogVars, window_config>>

\* JS8CallMonitorGUI.__init__: the 2 s timer; then the event loop runs
StartTimer ==
  /\ pc = "start_timer"
  /\ pc' = "running"
  /\ UNCHANGED <<status_indicators, loadExc, monitor, monitor_thread, tcp_client,
                 udp_server, queues, forcedPending, lastError, linkUp, seenLink>>
  /\ UNCHANGED <<file, dialogVars, window_config, start_steps_done, threadVars>>

\* the 2 s timer: update_status()
TimerTick ==
  /\ pc = "running"
  /\ status_indicators' = update_status(status_indicators, FALSE)
  /\ seenLink' = IF linkUp THEN "up" ELSE "down"
  /\ UNCHANGED <<pc, loadExc, monitor, monitor_thread, tcp_client, udp_server,
                 queues, forcedPending, lastError, linkUp>>
  /\ UNCHANGED <<file, dialogVars, window_config, start_steps_done, threadVars>>

\* the single shot of start_monitor: update_status(force=True)
ForcedUpdate ==
  /\ pc = "running" /\ forcedPending
  /\ status_indicators' = update_status(status_indicators, TRUE)
  /\ forcedPending' = FALSE
  /\ seenLink' = IF linkUp THEN "up" ELSE "down"
  /\ UNCHANGED <<pc, loadExc, monitor, monitor_thread, tcp_client, udp_server,
                 queues, lastError, linkUp>>
  /\ UNCHANGED <<file, dialogVars, window_config, start_steps_done, threadVars>>

\* the network: the source's connection comes up or goes down
TransportChange ==
  /\ pc = "running"
  /\ tcp_client = "created" \/ udp_server = "created"
  /\ linkUp' = ~linkUp
  /\ UNCHANGED <<pc, status_indicators, loadExc, monitor, monitor_thread, tcp_client,
                 udp_server, queues, forcedPending, lastError, seenLink>>
  /\ UNCHANGED <<file, dialogVars, window_config, start_steps_done, threadVars>>

\* a stop that leaves the flag as it is
stop_noop(flag) == flag

\* MonitorThread.stop: self.running = False
stop(flag) == FALSE

\* closeEvent: the thread is told to stop, the application quits
CloseWindow ==
  /\ pc = "running"
  /\ pc' = "closed"
  /\ monitor_thread' = IF monitor_thread = "started" THEN "stopped" ELSE monitor_thread
  /\ running' = IF monitor_thread # "None" THEN stop(running) ELSE running
  /\ UNCHANGED <<status_indicators, loadExc, monitor, tcp_client, udp_server, queues,
                 forcedPending, lastError, linkUp, seenLink>>
  /\ UNCHANGED <<tpc, msgQueue, cmdQueue, caught, errors, emitted, lastCall,
                 msgSeenEmpty, sinceRound>>
  /\ UNCHANGED <<file, dialogVars, window_config, start_steps_done>>

Next ==
  \/ LoadConfig
  \/ FileRewritten
  \/ \E fails \in StartFailures : StartMonitor(fails)
  \/ StartTimer
  \/ TimerTick
  \/ ForcedUpdate
  \/ TransportChange
  \/ CloseWindow

Spec == Init /\ [][Next]_vars

(***************************************************************************)
(* Properties of the main window                                           *)
(***************************************************************************)
Indicators == {status_indicators[i] : i \in DOMAIN status_indicators}
IndicatorNamed(n) == CHOOSE ind \in Indicators : ind.name = n
own_option(cfg, s, k) == has_section(cfg, s) /\ k \in DOMAIN unify_values(cfg, s)

\* C6: load_config never raises for want of a section or a key (KeyError),
\* and uses the default wherever the key is absent: a client without its
\* enabling flags gets no indicator, an indicator without its host, port or
\* logfile key shows the default one.
C6_AbsentKeysDefaulted ==
  pc # "load_config" =>
    /\ loadExc # "KeyError"
    /\ \A i \in 1..Len(Clients) :
         LET c == Clients[i] IN
         /\ (\A j \in 1..Len(c.flags) : ~own_option(file, c.section, c.flags[j]))
              => ~(\E ind \in Indicators : ind.name = c.name)
         /\ (\E ind \in Indicators : ind.name = c.name) =>
              /\ ~own_option(file, c.section, c.addrkey)
                   => IndicatorNamed(c.name).port = c.addrdefault
              /\ (c.protocol # "FILE" /\ ~own_option(file, c.section, "host"))
                   => IndicatorNamed(c.name).host = S_localhost

\* C8: after a status refresh the connected flag of a TCP indicator is the
\* state the tcp_client's connection had at that refresh: true when it was
\* up, false when it was down.
C8_TcpFlagMirrorsClient ==
  (seenLink # "never" /\ tcp_client = "created") =>
    \A ind \in Indicators : ind.protocol = "TCP" => (ind.connected <=> seenLink = "up")

\* C9: once update_status has run, every UDP indicator is connected,
\* whether or not a udp_server exists and whatever the network does.
C9_UdpAlwaysConnected ==
  seenLink # "never" =>
    \A ind \in Indicators : ind.protocol = "UDP" => ind.connected

\* a refresh with the network down and no udp_server created, a UDP source
\* and a UDP client shown
C9_Witness ==
  /\ seenLink = "down" /\ udp_server = "None" /\ tcp_client = "None"
  /\ \E a, b \in Indicators : a.protocol = "UDP" /\ b.protocol = "UDP" /\ a.name # b.name

\* C10: every indicator's LED is green exactly when its status is connected
\* and red exactly when it is not.
C10_LedFollowsFlag ==
  \A ind \in Indicators :
    /\ ind.led \in {LedGreen, LedRed}
    /\ ind.led = LedGreen <=> ind.connected
    /\ ind.led = LedRed <=> ~ind.connected

\* after a refresh: a green indicator next to a red one, and, in another
\* run, a FILE indicator turned green by the forced update
C10_Witness ==
  /\ seenLink # "never"
  /\ \E a, b \in Indicators : a.led = LedGreen /\ b.led = LedRed /\ b.protocol = "FILE"

C10_WitnessForced ==
  /\ seenLink # "never"
  /\ \E a \in Indicators : a.led = LedGreen /\ a.protocol = "FILE"

(***************************************************************************)
(* Properties of load_config                                               *)
(***************************************************************************)
\* the value the configuration holds for an option of a section, as written
raw_option(cfg, s, k) == unify_values(cfg, s)[k]
\* the option is there and strtobool accepts it
parses(cfg, s, k) == own_option(cfg, s, k) /\ strtobool(raw_option(cfg, s, k)).exc = "none"
\* the option is there and strtobool makes it true
parses_true(cfg, s, k) == parses(cfg, s, k) /\ strtobool(raw_option(cfg, s, k)).val = 1

SourceNames == {"JS8Call (TCP)", "JS8Call (UDP)"}
IndicatorNames == [i \in DOMAIN status_indicators |-> status_indicators[i].name]

\* C15: once load_config has run there is exactly one source indicator and
\* it is the first indicator: the TCP one exactly when the configuration read
\* has a TCP section whose 'enabled' parses as true, the UDP one in every
\* other case.
C15_OneSourceIndicatorFirst ==
  pc # "load_config" =>
    /\ Len(status_indicators) >= 1
    /\ \A i \in DOMAIN status_indicators : IndicatorNames[i] \in SourceNames <=> i = 1
    /\ IF parses_true(window_config, "TCP", "enabled")
       THEN /\ status_indicators[1].name = "JS8Call (TCP)"
            /\ status_indicators[1].protocol = "TCP"
       ELSE /\ status_indicators[1].name = "JS8Call (UDP)"
            /\ status_indicators[1].protocol = "UDP"

\* the clients a configuration enables, in the order load_config handles them
RECURSIVE EnabledClients(_, _)
EnabledClients(cfg, i) ==
  IF i > Len(Clients) THEN <<>>
  ELSE LET c == Clients[i]
           on == \E j \in 1..Len(c.flags) : parses_true(cfg, c.section, c.flags[j])
       IN (IF on THEN <<c.name>> ELSE <<>>) \o EnabledClients(cfg, i + 1)

\* every client section is there and each of its enabling flags parses
ClientsParsable(cfg) ==
  \A i \in 1..Len(Clients) :
    /\ has_section(cfg, Clients[i].section)
    /\ \A j \in 1..Len(Clients[i].flags) : parses(cfg, Clients[i].section, Clients[i].flags[j])

\* C16: once load_config has run on a configuration whose client sections
\* are all present with parsable enabling flags, the indicators after the
\* source indicator are those of the enabled clients, one each, in the order
\* N1MM+, GridTracker, GeoServer, YAAC, ADIF.
C16_ClientIndicatorsAreEnabledOnes ==
  (pc # "load_config" /\ ClientsParsable(window_config)) =>
    [i \in 1..(Len(status_indicators) - 1) |-> status_indicators[i + 1].name]
      = EnabledClients(window_config, 1)

(***************************************************************************)
(* Properties of start_monitor                                             *)
(***************************************************************************)
\* start_monitor ran to the end of its try block
Started == monitor_thread \in {"started", "stopped"}

\* C17: after a start_monitor that did not raise, exactly one of tcp_client
\* and udp_server has been created, and it is the tcp_client exactly when
\* the source indicator load_config built is the TCP one, also when the file
\* was rewritten between the two reads.
C17_TransportMatchesIndicator ==
  Started =>
    /\ (tcp_client = "created") # (udp_server = "created")
    /\ (tcp_client = "created") <=> (status_indicators[1].protocol = "TCP")

\* the single shot update_status(force=True) has run
ForcedRan == Started /\ ~forcedPending
\* start_monitor has run and raised
StartRaised == pc \in {"start_timer", "running", "closed"} /\ ~Started

\* C18: once the forced update of a start_monitor that did not raise has
\* run, every indicator (UDP, TCP, FILE) is connected and green; after a
\* start_monitor that raised no forced update is scheduled or runs, and
\* every FILE indicator stays disconnected and red, timer ticks included.
C18_ForcedConnectsAll ==
  /\ ForcedRan => \A ind \in Indicators : ind.connected /\ ind.led = LedGreen
  /\ StartRaised =>
       /\ ~forcedPending
       /\ \A ind \in Indicators : ind.protocol = "FILE" => ~ind.connected /\ ind.led = LedRed

\* the forced update has run on a TCP source with FILE clients and timer
\* ticks have followed
C18_Witness ==
  /\ ForcedRan /\ seenLink # "never"
  /\ \E a, b \in Indicators : a.protocol = "FILE" /\ b.protocol = "TCP" /\ a.connected

\* a start that raised, then a timer tick, with a FILE client shown
C18_WitnessRaised ==
  /\ StartRaised /\ seenLink # "never"
  /\ \E a \in Indicators : a.protocol = "FILE" /\ ~a.connected

MaxQueue == 2    \* items a queue holds at most
MaxErrors == 2   \* exceptions raised inside run

\* exceptions a callback or a queue check may raise (all of them Exceptions)
ExceptionClasses == {"ValueError", "OSError"}

\* a handler that catches ValueError alone
run_catches_value_error(exc) == exc = "ValueError"

\* except Exception as e
run_catches(exc) == exc \in ExceptionClasses

\* while self.running:
run_loop_test(flag) == IF flag THEN "msg_check" ELSE "done"

\* while not js8call_monitor.msgQueue.empty():
msg_loop_test(n) == IF n > 0 THEN "parse_json" ELSE "cmd_check"

\* a command loop that takes cmdQueue for empty
cmd_loop_test_never(n) == "sleep"

\* while not js8call_monitor.cmdQueue.empty():
cmd_loop_test(n) == IF n > 0 THEN "parse_cmd" ELSE "sleep"

\* a loop body without the reset_vals after parse_json
after_call_no_reset(at) ==
  CASE at = "parse_json" -> "msg_check"
    [] at = "reset_msg" -> "msg_check"
    [] at = "parse_cmd" -> "reset_cmd"
    [] at = "reset_cmd" -> "cmd_check"
    [] at = "sleep" -> "while"
    [] at = "emit" -> "while"

\* where run goes on after a statement that returned
after_call(at) ==
  CASE at = "parse_json" -> "reset_msg"
    [] at = "reset_msg" -> "msg_check"
    [] at = "parse_cmd" -> "reset_cmd"
    [] at = "reset_cmd" -> "cmd_check"
    [] at = "sleep" -> "while"
    [] at = "emit" -> "while"

\* where run goes on after a statement of the try block that raised
on_raise(exc) == IF run_catches(exc) THEN "emit" ELSE "died"

\* a parse callback takes the item at the head of its queue
queue_get(n) == n - 1

ThreadAlive == tpc \notin {"unstarted", "done", "died"}

\* a statement of the try block raises exc
Raises(exc) ==
  /\ errors < MaxErrors
  /\ errors' = errors + 1
  /\ caught' = exc
  /\ tpc' = on_raise(exc)

\* the test of the outer loop; a pass begins when it is true
RunWhile ==
  /\ tpc = "while"
  /\ tpc' = run_loop_test(running)
  /\ msgSeenEmpty' = IF running THEN FALSE ELSE msgSeenEmpty
  /\ sinceRound' = IF running THEN "polled" ELSE sinceRound
  /\ UNCHANGED <<running, msgQueue, cmdQueue, caught, errors, emitted, lastCall>>
  /\ UNCHANGED <<file, dialogVars, pc, status_indicators, loadExc, monitor, monitor_thread,
                 tcp_client, udp_server, queues, forcedPending, lastError, linkUp, seenLink,
                 window_config, start_steps_done>>

\* msgQueue.empty()
RunMsgCheck ==
  /\ tpc = "msg_check"
  /\ \/ /\ tpc' = msg_loop_test(msgQueue)
        /\ msgSeenEmpty' = (msgSeenEmpty \/ msgQueue = 0)
        /\ UNCHANGED <<caught, errors>>
     \/ /\ \E exc \in ExceptionClasses : Raises(exc)
        /\ UNCHANGED msgSeenEmpty
  /\ UNCHANGED <<running, msgQueue, cmdQueue, emitted, lastCall, sinceRound>>
  /\ UNCHANGED <<file, dialogVars, pc, status_indicators, loadExc, monitor, monitor_thread,
                 tcp_client, udp_server, queues, forcedPending, lastError, linkUp, seenLink,
                 window_config, start_steps_done>>

\* self.monitor.parse_json(): handles the item at the head of msgQueue; when
\* it raises, the item may or may not have been taken
RunParseJson ==
  /\ tpc = "parse_json"
  /\ lastCall' = "parse_json"
  /\ \/ /\ tpc' = after_call("parse_json")
        /\ msgQueue' = queue_get(msgQueue)
        /\ UNCHANGED <<caught, errors>>
     \/ /\ \E exc \in ExceptionClasses : Raises(exc)
        /\ msgQueue' \in {msgQueue, queue_get(msgQueue)}
  /\ UNCHANGED <<running, cmdQueue, emitted, msgSeenEmpty, sinceRound>>
  /\ UNCHANGED <<file, dialogVars, pc, status_indicators, loadExc, monitor, monitor_thread,
                 tcp_client, udp_server, queues, forcedPending, lastError, linkUp, seenLink,
                 window_config, start_steps_done>>

\* self.monitor.reset_vals(), after parse_json and after parse_cmd
RunResetVals ==
  /\ tpc \in {"reset_msg", "reset_cmd"}
  /\ lastCall' = "reset_vals"
  /\ \/ /\ tpc' = after_call(tpc)
        /\ UNCHANGED <<caught, errors>>
     \/ \E exc \in ExceptionClasses : Raises(exc)
  /\ UNCHANGED <<running, msgQueue, cmdQueue, emitted, msgSeenEmpty, sinceRound>>
  /\ UNCHANGED <<file, dialogVars, pc, status_indicators, loadExc, monitor, monitor_thread,
                 tcp_client, udp_server, queues, forcedPending, lastError, linkUp, seenLink,
                 window_config, start_steps_done>>

\* cmdQueue.empty()
RunCmdCheck ==
  /\ tpc = "cmd_check"
  /\ \/ /\ tpc' = cmd_loop_test(cmdQueue)
        /\ UNCHANGED <<caught, errors>>
     \/ \E exc \in ExceptionClasses : Raises(exc)
  /\ UNCHANGED <<running, msgQueue, cmdQueue, emitted, lastCall, msgSeenEmpty, sinceRound>>
  /\ UNCHANGED <<file, dialogVars, pc, status_indicators, loadExc, monitor, monitor_thread,
                 tcp_client, udp_server, queues, forcedPending, lastError, linkUp, seenLink,
                 window_config, start_steps_done>>

\* self.monitor.parse_cmd(): handles the item at the head of cmdQueue
RunParseCmd ==
  /\ tpc = "parse_cmd"
  /\ lastCall' = "parse_cmd"
  /\ \/ /\ tpc' = after_call("parse_cmd")
        /\ cmdQueue' = queue_get(cmdQueue)
        /\ UNCHANGED <<caught, errors>>
     \/ /\ \E exc \in ExceptionClasses : Raises(exc)
        /\ cmdQueue' \in {cmdQueue, queue_get(cmdQueue)}
  /\ UNCHANGED <<running, msgQueue, emitted, msgSeenEmpty, sinceRound>>
  /\ UNCHANGED <<file, dialogVars, pc, status_indicators, loadExc, monitor, monitor_thread,
                 tcp_client, udp_server, queues, forcedPending, lastError, linkUp, seenLink,
                 window_config, start_steps_done>>

\* time.sleep(0.5)
RunSleep ==
  /\ tpc = "sleep"
  /\ tpc' = after_call("sleep")
  /\ sinceRound' = "slept"
  /\ UNCHANGED <<running, msgQueue, cmdQueue, caught, errors, emitted, lastCall, msgSeenEmpty>>
  /\ UNCHANGED <<file, dialogVars, pc, status_indicators, loadExc, monitor, monitor_thread,
                 tcp_client, udp_server, queues, forcedPending, lastError, linkUp, seenLink,
                 window_config, start_steps_done>>

\* the except branch: error_signal.emit(str(e)), which the window's
\* show_error prints
RunEmit ==
  /\ tpc = "emit"
  /\ emitted' = emitted + 1
  /\ lastError' = caught
  /\ caught' = "none"
  /\ tpc' = after_call("emit")
  /\ UNCHANGED <<running, msgQueue, cmdQueue, errors, lastCall, msgSeenEmpty, sinceRound>>
  /\ UNCHANGED <<file, dialogVars, pc, status_indicators, loadExc, monitor, monitor_thread,
                 tcp_client, udp_server, queues, forcedPending, linkUp, seenLink,
                 window_config, start_steps_done>>

\* one step of run
ThreadStep ==
  \/ RunWhile
  \/ RunMsgCheck
  \/ RunParseJson
  \/ RunResetVals
  \/ RunCmdCheck
  \/ RunParseCmd
  \/ RunSleep
  \/ RunEmit

\* the producers of js8call_monitor are at work once the queues are installed
\* and a transport exists
Producing ==
  /\ queues = "fresh"
  /\ tcp_client = "created" \/ udp_server = "created"
  /\ pc \in {"start_timer", "running", "closed"}

\* a message arrives in msgQueue
ProduceMsg ==
  /\ Producing
  /\ msgQueue < MaxQueue
  /\ msgQueue' = msgQueue + 1
  /\ UNCHANGED <<running, tpc, cmdQueue, caught, errors, emitted, lastCall, msgSeenEmpty,
                 sinceRound>>
  /\ UNCHANGED <<file, dialogVars, pc, status_indicators, loadExc, monitor, monitor_thread,
                 tcp_client, udp_server, queues, forcedPending, lastError, linkUp, seenLink,
                 window_config, start_steps_done>>

\* a command arrives in cmdQueue
ProduceCmd ==
  /\ Producing
  /\ cmdQueue < MaxQueue
  /\ cmdQueue' = cmdQueue + 1
  /\ UNCHANGED <<running, tpc, msgQueue, caught, errors, emitted, lastCall, msgSeenEmpty,
                 sinceRound>>
  /\ UNCHANGED <<file, dialogVars, pc, status_indicators, loadExc, monitor, monitor_thread,
                 tcp_client, udp_server, queues, forcedPending, lastError, linkUp, seenLink,
                 window_config, start_steps_done>>

\* the files the window of the thread's specification starts on
ThreadFiles == {FullFile, with_flags(EnablingFlags)}

InitThread ==
  /\ file \in ThreadFiles
  /\ DialogClosed
  /\ mayEdit = FALSE
  /\ WindowNew

NextThread ==
  \/ LoadConfig
  \/ \E fails \in StartFailures : StartMonitor(fails)
  \/ StartTimer
  \/ ThreadStep
  \/ ProduceMsg
  \/ ProduceCmd
  \/ CloseWindow

\* the window starting and closing with its thread at work (the timer and
\* the indicators, which the thread does not touch, are left to Spec); a
\* started thread that can take a step eventually takes one
SpecThread == InitThread /\ [][NextThread]_vars /\ WF_vars(ThreadStep)

(***************************************************************************)
(* Properties of the polling thread                                        *)
(***************************************************************************)
\* parse_json / parse_cmd has just returned
MsgHandled == tpc = "reset_msg"
CmdHandled == tpc = "reset_cmd"
\* the claims about callbacks that do not raise and a thread that is running
\* say nothing once an exception was raised or stop() was called
Excused == errors > 0 \/ ~running
\* closeEvent has called stop() on the started thread
StopCalled == monitor_thread = "stopped"

\* C11 as claimed: while the thread runs and nothing raises, a pending
\* message is eventually handled by parse_json and a pending command by
\* parse_cmd, however the producers behave.
C11_EveryItemHandled ==
  /\ (ThreadAlive /\ msgQueue > 0) ~> (MsgHandled \/ Excused)
  /\ (ThreadAlive /\ cmdQueue > 0) ~> (CmdHandled \/ Excused)

\* C11 as amended: while the thread runs and nothing raises, a pending
\* message is eventually handled by parse_json unless commands keep arriving
\* for ever, and a pending command is eventually handled by parse_cmd unless
\* messages keep arriving for ever.
C11_HandledUnlessFlooded ==
  /\ \/ []<><<ProduceCmd>>_vars
     \/ (ThreadAlive /\ msgQueue > 0) ~> (MsgHandled \/ Excused)
  /\ \/ []<><<ProduceMsg>>_vars
     \/ (ThreadAlive /\ cmdQueue > 0) ~> (CmdHandled \/ Excused)

\* a command handled while a message that arrived after the drain of
\* msgQueue is pending
C11_Witness == CmdHandled /\ msgQueue > 0 /\ errors = 0 /\ running

\* C12 as claimed: once stop() was called, run returns, whatever the queues
\* hold and whatever the producers add.
C12_StopTerminates == StopCalled ~> (tpc = "done")

\* C12 as amended: after stop() no new pass of the outer loop begins, and
\* run returns unless the producers keep adding items for ever.
C12_StopTerminatesUnlessFlooded ==
  /\ [][(tpc = "while" /\ ~running) => tpc' # "msg_check"]_vars
  /\ \/ []<><<ProduceMsg \/ ProduceCmd>>_vars
     \/ StopCalled ~> (tpc = "done")

\* run has returned after stop() with items left in both queues
C12_Witness == StopCalled /\ tpc = "done" /\ msgQueue > 0 /\ cmdQueue > 0

\* C13: no exception raised inside run ends the thread: each is caught and
\* emitted once (show_error prints it), and run returns only when running
\* is false.
C13_ExceptionsCaughtAndEmitted ==
  /\ tpc # "died"
  /\ (tpc = "emit") <=> (caught # "none")
  /\ emitted = IF tpc = "emit" THEN errors - 1 ELSE errors
  /\ emitted > 0 => lastError \in ExceptionClasses
  /\ tpc = "done" => ~running

\* polling again after an exception of each class was emitted
C13_Witness ==
  /\ emitted = 2 /\ running /\ tpc = "parse_json"
  /\ lastError = "OSError"

\* C14: a pass of the outer loop never begins without a sleep since the pass
\* before it began.
C14_SleepBetweenRounds ==
  [][(tpc = "while" /\ tpc' = "msg_check") => sinceRound # "polled"]_vars

\* C20: while nothing has raised, a parse call is never made right after
\* another parse call, the call after a parse call is reset_vals, and
\* parse_cmd is called only after msgQueue was seen empty in the same pass.
C20_ResetAfterParseMsgsFirst ==
  errors = 0 =>
    /\ tpc \in {"parse_json", "parse_cmd"} => lastCall \in {"none", "reset_vals"}
    /\ lastCall = "parse_json" => tpc = "reset_msg"
    /\ lastCall = "parse_cmd" => tpc = "reset_cmd"
    /\ tpc \in {"parse_cmd", "reset_cmd"} => msgSeenEmpty

\* about to call parse_cmd after a reset_vals, with a message that arrived
\* after msgQueue was seen empty
C20_Witness ==
  /\ errors = 0 /\ tpc = "parse_cmd" /\ lastCall = "reset_vals"
  /\ msgSeenEmpty /\ msgQueue > 0

(***************************************************************************)
(* Properties of start_monitor's order                                     *)
(***************************************************************************)
\* the place of a step among those start_monitor completed, 0 when it did not
StepAt(s) ==
  IF \E i \in DOMAIN start_steps_done : start_steps_done[i] = s
  THEN CHOOSE i \in DOMAIN start_steps_done : start_steps_done[i] = s
  ELSE 0
StepDone(s) == StepAt(s) > 0
\* step b was completed only after step a
StepBefore(a, b) == StepDone(b) => (StepDone(a) /\ StepAt(a) < StepAt(b))
\* start_monitor has run
PastStart == pc \in {"start_timer", "running", "closed"}
TransportSteps == {"tcp_client", "udp_server"}

\* C21: start_monitor installs the queues before it creates the monitor
\* instance, creates the monitor before the tcp_client or udp_server, and
\* starts the thread after all of them; a thread that is running has
\* initialised queues; and when a step before the thread raises, no thread
\* is started, monitor_thread stays None and show_error reports the failure.
C21_StartupOrder ==
  /\ tpc # "unstarted" => (PastStart /\ queues = "fresh" /\ StepDone("thread.start"))
  /\ PastStart =>
       /\ StepBefore("queues", "JS8CallMonitor")
       /\ \A tr \in TransportSteps : StepBefore("JS8CallMonitor", tr)
       /\ StepDone("thread.start") =>
            /\ StepBefore("queues", "thread.start")
            /\ StepBefore("JS8CallMonitor", "thread.start")
            /\ \E tr \in TransportSteps : StepDone(tr) /\ StepAt(tr) < StepAt("thread.start")
       /\ StepDone("queues") <=> (queues = "fresh")
       /\ StepDone("JS8CallMonitor") <=> (monitor = "created")
       /\ StepDone("tcp_client") <=> (tcp_client = "created")
       /\ StepDone("udp_server") <=> (udp_server = "created")
       /\ StepDone("MonitorThread") <=> (monitor_thread # "None")
       /\ StepDone("thread.start") <=> (tpc # "unstarted")
       /\ ~StepDone("MonitorThread") =>
            /\ monitor_thread = "None"
            /\ tpc = "unstarted"
            /\ lastError = "Failed to start monitor"

\* the started thread testing msgQueue, all six steps of start_monitor done
C21_Witness ==
  /\ tpc = "msg_check" /\ Len(start_steps_done) = 6
  /\ StepAt("thread.start") = 5 /\ tcp_client = "created"

\* the transport's constructor raised: two steps done, no thread
C21_WitnessRaised ==
  /\ PastStart /\ start_steps_done = <<"queues", "JS8CallMonitor">>
  /\ monitor_thread = "None" /\ lastError = "Failed to start monitor"
=============================================================================
